---- MODULE Spec2Model ----
(***************************************************************************)
(* Conway's Game of Life on a CUDA device (main.cu).                       *)
(*                                                                         *)
(* The host program main() parses the generation count, allocates a host   *)
(* board and two device boards, and launches the kernel simstep once per   *)
(* generation on alternating device boards.  Kernel launches are           *)
(* asynchronous: the host enqueues them on the default stream, the device  *)
(* runs the launches in order, and the threads of one launch run in any    *)
(* interleaving.  cudaMemcpy waits for the stream to drain.                *)
(*                                                                         *)
(* Boards are flat buffers: functions from 0..n-1 to cell values.          *)
(***************************************************************************)
EXTENDS Integers, Sequences, FiniteSets, TLC

(* ------------------------------------------------------------------ *)
(* Program constants.  The board of the program is 64 x 64 cells in    *)
(* blocks of 16 x 16 threads; the model keeps the code's arithmetic    *)
(* and scales the sizes down so that every thread interleaving of a    *)
(* launch can be enumerated.                                           *)
(* ------------------------------------------------------------------ *)
BLOCK_SIDE == 2

BoardWidth == 2

BoardHeight == 2

DefaultGenerations == 1000000

(* ------------------------------------------------------------------ *)
(* Bounds of the model.                                                *)
(* ------------------------------------------------------------------ *)
\* the host loop is followed for at most MaxGen iterations
MaxGen == 3

\* SpecStep: boards of side BLOCK_SIDE * k, k in 1..MaxBlocks
MaxBlocks == 3

\* SpecStep: number of generation steps applied to each board
MaxStepGen == 2

\* SpecFn: boards of side 1..MaxFnSide
MaxFnSide == 3

\* SpecFn: coordinates probed lie in -Margin .. side-1+Margin
Margin == 2

(* ------------------------------------------------------------------ *)
(* Values.                                                             *)
(* ------------------------------------------------------------------ *)
NULL == "NULL"

UNINIT == "UNINIT"

\* a host pointer returned by a successful malloc
HOST == "host"

\* the two device allocations
DEV0 == "dev0"

DEV1 == "dev1"

\* memory that holds no board: not allocated, or allocated and not yet written
NoBoard == << >>

NoArg == "NoArg"

NoCall == [fn |-> "none"]

\* a buffer of n cells, all zero
ZeroBuffer(n) == [i \in 0..(n - 1) |-> 0]

\* every buffer of n cells of 0x0 / 0x1
AllBuffers(n) == [0..(n - 1) -> {0, 1}]

(* ------------------------------------------------------------------ *)
(* Device functions.                                                   *)
(* ------------------------------------------------------------------ *)
getat_wrap(pboard, nrows, ncols, x, y) ==
    pboard[((x + ncols) % ncols) * ncols + ((y + nrows) % nrows)]

getat(pboard, nrows, ncols, x, y) ==
    IF x >= 0 /\ x < ncols /\ y >= 0 /\ y < nrows
    THEN pboard[x * ncols + y]
    ELSE 0

numneighbors_self(x, y, pboard, nrows, ncols) ==
      getat(pboard, nrows, ncols, x, y)
    + getat(pboard, nrows, ncols, x - 1, y)
    + getat(pboard, nrows, ncols, x + 1, y)
    + getat(pboard, nrows, ncols, x, y - 1)
    + getat(pboard, nrows, ncols, x, y + 1)
    + getat(pboard, nrows, ncols, x - 1, y - 1)
    + getat(pboard, nrows, ncols, x - 1, y + 1)
    + getat(pboard, nrows, ncols, x + 1, y - 1)
    + getat(pboard, nrows, ncols, x + 1, y + 1)

numneighbors(x, y, pboard, nrows, ncols) ==
      getat(pboard, nrows, ncols, x - 1, y)
    + getat(pboard, nrows, ncols, x + 1, y)
    + getat(pboard, nrows, ncols, x, y - 1)
    + getat(pboard, nrows, ncols, x, y + 1)
    + getat(pboard, nrows, ncols, x - 1, y - 1)
    + getat(pboard, nrows, ncols, x - 1, y + 1)
    + getat(pboard, nrows, ncols, x + 1, y - 1)
    + getat(pboard, nrows, ncols, x + 1, y + 1)

(* ------------------------------------------------------------------ *)
(* The kernel.  A thread is [bx, by, tx, ty]: its block and its place  *)
(* in the block.  The body of simstep is two steps of a thread: the    *)
(* copy of line 66, then the neighbour count and the rules (68-88).    *)
(* ------------------------------------------------------------------ *)
Threads(gridsize, blocksize) ==
    [bx : 0..(gridsize.x - 1), by : 0..(gridsize.y - 1),
     tx : 0..(blocksize.x - 1), ty : 0..(blocksize.y - 1)]

ThreadX_block(t) == t.bx * BLOCK_SIDE

ThreadX(t) == t.bx * BLOCK_SIDE + t.tx

ThreadY(t) == t.by * BLOCK_SIDE + t.ty

simstepCopy(nrows, ncols, pCurrBoard, pNewBoard, t) ==
    LET x == ThreadX(t)
        y == ThreadY(t)
        indx == x * ncols + y
    IN  [pNewBoard EXCEPT ![indx] = pCurrBoard[indx]]

simstepRules_inplace(nrows, ncols, pCurrBoard, pNewBoard, t) ==
    LET x == ThreadX(t)
        y == ThreadY(t)
        indx == x * ncols + y
        neighbors == numneighbors(x, y, pNewBoard, nrows, ncols)
        b1 == IF neighbors < 2 THEN [pNewBoard EXCEPT ![indx] = 0] ELSE pNewBoard
        b2 == IF neighbors > 3 THEN [b1 EXCEPT ![indx] = 0] ELSE b1
    IN  IF neighbors = 3 /\ pNewBoard[indx] = 0
        THEN [b2 EXCEPT ![indx] = 1]
        ELSE b2

simstepRules_crowd(nrows, ncols, pCurrBoard, pNewBoard, t) ==
    LET x == ThreadX(t)
        y == ThreadY(t)
        indx == x * ncols + y
        neighbors == numneighbors(x, y, pCurrBoard, nrows, ncols)
        b1 == IF neighbors < 2 THEN [pNewBoard EXCEPT ![indx] = 0] ELSE pNewBoard
        b2 == IF neighbors >= 3 THEN [b1 EXCEPT ![indx] = 0] ELSE b1
    IN  IF neighbors = 3 /\ pCurrBoard[indx] = 0
        THEN [b2 EXCEPT ![indx] = 1]
        ELSE b2

simstepRules_birth(nrows, ncols, pCurrBoard, pNewBoard, t) ==
    LET x == ThreadX(t)
        y == ThreadY(t)
        indx == x * ncols + y
        neighbors == numneighbors(x, y, pCurrBoard, nrows, ncols)
        b1 == IF neighbors < 2 THEN [pNewBoard EXCEPT ![indx] = 0] ELSE pNewBoard
        b2 == IF neighbors > 3 THEN [b1 EXCEPT ![indx] = 0] ELSE b1
    IN  IF pCurrBoard[indx] = 0
        THEN [b2 EXCEPT ![indx] = 1]
        ELSE b2

simstepRules_count(nrows, ncols, pCurrBoard, pNewBoard, t) ==
    LET x == ThreadX(t)
        y == ThreadY(t)
        indx == x * ncols + y
        neighbors == numneighbors(x, y, pCurrBoard, nrows, ncols)
        b1 == IF neighbors < 2 THEN [pNewBoard EXCEPT ![indx] = 0] ELSE pNewBoard
        b2 == IF neighbors > 3 THEN [b1 EXCEPT ![indx] = 0] ELSE b1
    IN  IF neighbors = 3 /\ pCurrBoard[indx] = 0
        THEN [b2 EXCEPT ![indx] = neighbors]
        ELSE b2

simstepRules(nrows, ncols, pCurrBoard, pNewBoard, t) ==
    LET x == ThreadX(t)
        y == ThreadY(t)
        indx == x * ncols + y
        neighbors == numneighbors(x, y, pCurrBoard, nrows, ncols)
        b1 == IF neighbors < 2 THEN [pNewBoard EXCEPT ![indx] = 0] ELSE pNewBoard
        b2 == IF neighbors > 3 THEN [b1 EXCEPT ![indx] = 0] ELSE b1
    IN  IF neighbors = 3 /\ pCurrBoard[indx] = 0
        THEN [b2 EXCEPT ![indx] = 1]
        ELSE b2

\* the whole body of simstep for one thread
simstep(nrows, ncols, pCurrBoard, pNewBoard, t) ==
    simstepRules(nrows, ncols, pCurrBoard,
                 simstepCopy(nrows, ncols, pCurrBoard, pNewBoard, t), t)

\* e, once the board b has its value: the boards of a launch are computed
\* thread by thread and not as one nested expression (the test changes nothing)
After(b, e) == IF b = b THEN e ELSE e

\* the launch configuration of main
blocksize == [x |-> BLOCK_SIDE, y |-> BLOCK_SIDE]

gridsize(w, h) == [x |-> w \div BLOCK_SIDE, y |-> h \div BLOCK_SIDE]

\* thread number k of block number j of a grid
ThreadOf(j, k, grid, block) ==
    [bx |-> j \div grid.y, by |-> j % grid.y, tx |-> k \div block.y, ty |-> k % block.y]

\* the threads k, k+1, ... of block j run to completion, one after the other
RECURSIVE RunThreads(_, _, _, _, _, _, _)
RunThreads(nrows, ncols, pCurrBoard, pNewBoard, grid, j, k) ==
    IF k >= blocksize.x * blocksize.y
    THEN pNewBoard
    ELSE LET b == simstep(nrows, ncols, pCurrBoard, pNewBoard,
                          ThreadOf(j, k, grid, blocksize))
         IN  After(b, RunThreads(nrows, ncols, pCurrBoard, b, grid, j, k + 1))

\* the blocks j, j+1, ... of the grid run to completion, one after the other
RECURSIVE RunBlocks(_, _, _, _, _, _)
RunBlocks(nrows, ncols, pCurrBoard, pNewBoard, grid, j) ==
    IF j >= grid.x * grid.y
    THEN pNewBoard
    ELSE LET b == RunThreads(nrows, ncols, pCurrBoard, pNewBoard, grid, j, 0)
         IN  After(b, RunBlocks(nrows, ncols, pCurrBoard, b, grid, j + 1))

\* one launch of simstep<<<gridsize, blocksize>>> run to completion
Launch(nrows, ncols, pCurrBoard, pNewBoard) ==
    RunBlocks(nrows, ncols, pCurrBoard, pNewBoard, gridsize(ncols, nrows), 0)

(* ------------------------------------------------------------------ *)
(* atoi of the C library, on a string given as its characters.         *)
(* ------------------------------------------------------------------ *)
IsDigit(c) == c \in {"0", "1", "2", "3", "4", "5", "6", "7", "8", "9"}

DigitVal(c) ==
    CASE c = "0" -> 0 [] c = "1" -> 1 [] c = "2" -> 2 [] c = "3" -> 3
      [] c = "4" -> 4 [] c = "5" -> 5 [] c = "6" -> 6 [] c = "7" -> 7
      [] c = "8" -> 8 [] c = "9" -> 9

RECURSIVE SkipSpace(_, _)
SkipSpace(s, i) ==
    IF i <= Len(s) /\ s[i] = " " THEN SkipSpace(s, i + 1) ELSE i

RECURSIVE AtoiDigits(_, _, _)
AtoiDigits(s, i, acc) ==
    IF i <= Len(s) /\ IsDigit(s[i])
    THEN AtoiDigits(s, i + 1, acc * 10 + DigitVal(s[i]))
    ELSE acc

atoi(s) ==
    LET i == SkipSpace(s, 1)
        neg == i <= Len(s) /\ s[i] = "-"
        j == IF i <= Len(s) /\ s[i] \in {"-", "+"} THEN i + 1 ELSE i
        v == AtoiDigits(s, j, 0)
    IN  IF neg THEN 0 - v ELSE v

\* the command lines considered: no argument, or one argument
Args ==
    {NoArg, << >>, <<"a", "b", "c">>, <<"0">>, <<"1">>, <<"2">>, <<"3">>,
     <<"-", "1">>, <<"+", "2">>, <<" ", "1">>, <<"2", "x">>, <<"1", "2">>}

\* a well-formed integer: optional sign, then digits only, at least one
WellFormed(s) ==
    LET j == IF Len(s) >= 1 /\ s[1] \in {"-", "+"} THEN 2 ELSE 1
    IN  /\ j <= Len(s)
        /\ \A k \in j..Len(s) : IsDigit(s[k])

(* ------------------------------------------------------------------ *)
(* State.                                                              *)
(* ------------------------------------------------------------------ *)
VARIABLES
    pc,            \* the host's position in main, or the name of an auxiliary specification
    argv,          \* NoArg, or the characters of argv[1]
    ngenerations,
    boardW, boardH,
    pboard,        \* host pointer: UNINIT, NULL or HOST
    hostmem,       \* the host board pboard points to
    pDevBoard0, pDevBoard1,   \* device pointers: UNINIT, or DEV0 / DEV1
    devmem,        \* device memory of the two allocations
    gen,           \* loop counter of main
    pcurr, pnext,  \* UNINIT or a device pointer
    stream,        \* kernel launches enqueued and not yet complete
    tpc,           \* threads of the launch at the head of the stream: 0 start, 1 copied, 2 done
    fault,         \* the device context is in the error state
    out,           \* what was printed
    misuse,        \* calls made on a buffer whose allocation failed
    call           \* SpecFn: the last device function call and its result

vars == <<pc, argv, ngenerations, boardW, boardH, pboard, hostmem, pDevBoard0, pDevBoard1,
          devmem, gen, pcurr, pnext, stream, tpc, fault, out, misuse, call>>

hostVars == <<argv, ngenerations, boardW, boardH, pboard, hostmem, pDevBoard0, pDevBoard1,
              gen, pcurr, pnext, out>>

MainThreads == Threads(gridsize(boardW, boardH), blocksize)

(* ------------------------------------------------------------------ *)
(* main: the state at entry.                                           *)
(* ------------------------------------------------------------------ *)
Init ==
    /\ pc = "args"
    /\ argv \in Args
    /\ ngenerations = DefaultGenerations
    /\ boardW = BoardWidth
    /\ boardH = BoardHeight
    /\ pboard = UNINIT
    /\ hostmem = NoBoard
    /\ pDevBoard0 = UNINIT
    /\ pDevBoard1 = UNINIT
    /\ devmem = [a \in {DEV0, DEV1} |-> NoBoard]
    /\ gen = 0
    /\ pcurr = UNINIT
    /\ pnext = UNINIT
    /\ stream = << >>
    /\ tpc = [t \in MainThreads |-> 0]
    /\ fault = FALSE
    /\ out = << >>
    /\ misuse = {}
    /\ call = NoCall

\* lines 123-129
ParseArgs ==
    /\ pc = "args"
    /\ pc' = "malloc"
    /\ ngenerations' = IF argv # NoArg THEN atoi(argv) ELSE ngenerations
    /\ out' = Append(out, [msg |-> "Running", n |-> ngenerations'])
    /\ UNCHANGED <<argv, boardW, boardH, pboard, hostmem, pDevBoard0, pDevBoard1, devmem, gen,
                   pcurr, pnext, stream, tpc, fault, misuse, call>>

\* line 133: malloc succeeds or returns NULL; the result is not tested
Malloc ==
    /\ pc = "malloc"
    /\ pc' = "randomize"
    /\ \E ok \in BOOLEAN : pboard' = IF ok THEN HOST ELSE NULL
    /\ UNCHANGED <<argv, ngenerations, boardW, boardH, hostmem, pDevBoard0, pDevBoard1, devmem,
                   gen, pcurr, pnext, stream, tpc, fault, out, misuse, call>>

\* the buffers randomizeBoard can leave: every cell written with 0x0 or 0x1
randomizeBoard(nrows, ncols) == AllBuffers(ncols * nrows)

\* line 134: a write through NULL ends the process
Randomize ==
    /\ pc = "randomize"
    /\ IF pboard = NULL
       THEN /\ pc' = "crash"
            /\ misuse' = misuse \cup {"randomizeBoard"}
            /\ UNCHANGED hostmem
       ELSE /\ pc' = "printInit"
            /\ hostmem' \in randomizeBoard(boardH, boardW)
            /\ UNCHANGED misuse
    /\ UNCHANGED <<argv, ngenerations, boardW, boardH, pboard, pDevBoard0, pDevBoard1, devmem,
                   gen, pcurr, pnext, stream, tpc, fault, out, call>>

\* printBoard: the cells in the order printed, row x then column y
printBoard(msg, board, nrows, ncols) ==
    [msg |-> msg,
     cells |-> [x \in 0..(ncols - 1) |-> [y \in 0..(nrows - 1) |-> board[x * ncols + y]]]]

\* line 135
PrintInit ==
    /\ pc = "printInit"
    /\ pc' = "cudaMalloc0"
    /\ out' = Append(out, printBoard("Initial Board:", hostmem, boardH, boardW))
    /\ UNCHANGED <<argv, ngenerations, boardW, boardH, pboard, hostmem, pDevBoard0, pDevBoard1,
                   devmem, gen, pcurr, pnext, stream, tpc, fault, misuse, call>>

\* line 138: on failure the pointer keeps its uninitialised value
CudaMalloc0 ==
    /\ pc = "cudaMalloc0"
    /\ pc' = "memcpyH2D"
    /\ \E ok \in BOOLEAN :
         IF ok
         THEN pDevBoard0' = DEV0
         ELSE UNCHANGED pDevBoard0
    /\ UNCHANGED <<argv, ngenerations, boardW, boardH, pboard, hostmem, pDevBoard1,
                   devmem, gen, pcurr, pnext, stream, tpc, fault, out, misuse, call>>

\* line 139: with an invalid device pointer the copy returns an error and copies nothing
MemcpyH2D ==
    /\ pc = "memcpyH2D"
    /\ pc' = "cudaMalloc1"
    /\ IF pDevBoard0 = UNINIT
       THEN /\ misuse' = misuse \cup {"cudaMemcpy"}
            /\ UNCHANGED devmem
       ELSE /\ devmem' = [devmem EXCEPT ![pDevBoard0] = hostmem]
            /\ UNCHANGED misuse
    /\ UNCHANGED <<argv, ngenerations, boardW, boardH, pboard, hostmem, pDevBoard0, pDevBoard1,
                   gen, pcurr, pnext, stream, tpc, fault, out, call>>

\* line 142
CudaMalloc1 ==
    /\ pc = "cudaMalloc1"
    /\ pc' = "memset"
    /\ \E ok \in BOOLEAN :
         IF ok
         THEN pDevBoard1' = DEV1
         ELSE UNCHANGED pDevBoard1
    /\ UNCHANGED <<argv, ngenerations, boardW, boardH, pboard, hostmem, pDevBoard0,
                   devmem, gen, pcurr, pnext, stream, tpc, fault, out, misuse, call>>

cudaMemset_ones(n) == [i \in 0..(n - 1) |-> 1]

cudaMemset(n) == ZeroBuffer(n)

\* line 143
Memset ==
    /\ pc = "memset"
    /\ pc' = "loop"
    /\ IF pDevBoard1 = UNINIT
       THEN /\ misuse' = misuse \cup {"cudaMemset"}
            /\ UNCHANGED devmem
       ELSE /\ devmem' = [devmem EXCEPT ![pDevBoard1] = cudaMemset(boardH * boardW)]
            /\ UNCHANGED misuse
    /\ UNCHANGED <<argv, ngenerations, boardW, boardH, pboard, hostmem, pDevBoard0, pDevBoard1,
                   gen, pcurr, pnext, stream, tpc, fault, out, call>>

\* lines 155-164: the roles of the two device boards in iteration g
LoopCurr_fixed(g) == pDevBoard0

LoopCurr(g) == IF (g % 2) = 0 THEN pDevBoard0 ELSE pDevBoard1

LoopNext(g) == IF (g % 2) = 0 THEN pDevBoard1 ELSE pDevBoard0

\* lines 153-175, one iteration: the launch is enqueued and the host goes on
LoopIter ==
    /\ pc = "loop"
    /\ gen < ngenerations
    /\ gen < MaxGen
    /\ pcurr' = LoopCurr(gen)
    /\ pnext' = LoopNext(gen)
    /\ stream' = Append(stream, [curr |-> pcurr', next |-> pnext'])
    /\ misuse' = IF UNINIT \in {pcurr', pnext'} THEN misuse \cup {"simstep"} ELSE misuse
    /\ gen' = gen + 1
    /\ UNCHANGED <<pc, argv, ngenerations, boardW, boardH, pboard, hostmem, pDevBoard0, pDevBoard1,
                   devmem, tpc, fault, out, call>>

\* line 153: the loop condition fails
LoopExit ==
    /\ pc = "loop"
    /\ ~(gen < ngenerations)
    /\ pc' = "memcpyD2H"
    /\ UNCHANGED <<argv, ngenerations, boardW, boardH, pboard, hostmem, pDevBoard0, pDevBoard1,
                   devmem, gen, pcurr, pnext, stream, tpc, fault, out, misuse, call>>

\* the device pointers an uninitialised pcurr can hold: anything, a live allocation included
PointerValues(p) ==
    IF p = UNINIT THEN {UNINIT, pDevBoard0, pDevBoard1} ELSE {p}

\* line 182: waits for the stream, then copies the board pcurr points to; in the
\* error state, or from an invalid pointer, it returns an error and copies nothing
MemcpyD2H_next ==
    /\ pc = "memcpyD2H"
    /\ stream = << >>
    /\ pc' = "printResult"
    /\ \E p \in PointerValues(pnext) :
         IF fault \/ p = UNINIT
         THEN UNCHANGED hostmem
         ELSE hostmem' = devmem[p]
    /\ UNCHANGED <<argv, ngenerations, boardW, boardH, pboard, pDevBoard0, pDevBoard1, devmem,
                   gen, pcurr, pnext, stream, tpc, fault, out, misuse, call>>

MemcpyD2H ==
    /\ pc = "memcpyD2H"
    /\ stream = << >>
    /\ pc' = "printResult"
    /\ \E p \in PointerValues(pcurr) :
         IF fault \/ p = UNINIT
         THEN UNCHANGED hostmem
         ELSE hostmem' = devmem[p]
    /\ UNCHANGED <<argv, ngenerations, boardW, boardH, pboard, pDevBoard0, pDevBoard1, devmem,
                   gen, pcurr, pnext, stream, tpc, fault, out, misuse, call>>

\* line 184
PrintResult ==
    /\ pc = "printResult"
    /\ pc' = "free"
    /\ out' = Append(out, printBoard("Resulting Board:", hostmem, boardH, boardW))
    /\ UNCHANGED <<argv, ngenerations, boardW, boardH, pboard, hostmem, pDevBoard0, pDevBoard1,
                   devmem, gen, pcurr, pnext, stream, tpc, fault, misuse, call>>

\* lines 186-192
Free ==
    /\ pc = "free"
    /\ pc' = "done"
    /\ out' = Append(out, [msg |-> "generations in", n |-> ngenerations])
    /\ UNCHANGED <<argv, ngenerations, boardW, boardH, pboard, hostmem, pDevBoard0, pDevBoard1,
                   devmem, gen, pcurr, pnext, stream, tpc, fault, misuse, call>>

(* ------------------------------------------------------------------ *)
(* The device: the launch at the head of the stream.                   *)
(* ------------------------------------------------------------------ *)
HeadValid == stream # << >> /\ ~fault /\ UNINIT \notin {stream[1].curr, stream[1].next}

Retire_early(tpc1) ==
    /\ tpc' = [t \in DOMAIN tpc1 |-> 0]
    /\ stream' = Tail(stream)

\* the launch is complete when its last thread is: the next launch may start
Retire(tpc1) ==
    IF \A t \in DOMAIN tpc1 : tpc1[t] = 2
    THEN /\ tpc' = [t \in DOMAIN tpc1 |-> 0]
         /\ stream' = Tail(stream)
    ELSE /\ tpc' = tpc1
         /\ UNCHANGED stream

\* line 66 of one thread
ThreadCopy(t) ==
    /\ HeadValid
    /\ tpc[t] = 0
    /\ devmem' = [devmem EXCEPT ![stream[1].next] =
                     simstepCopy(boardH, boardW, devmem[stream[1].curr],
                                 devmem[stream[1].next], t)]
    /\ tpc' = [tpc EXCEPT ![t] = 1]
    /\ UNCHANGED <<pc, stream, fault, misuse, call>>
    /\ UNCHANGED hostVars

\* lines 68-88 of one thread
ThreadRules(t) ==
    /\ HeadValid
    /\ tpc[t] = 1
    /\ devmem' = [devmem EXCEPT ![stream[1].next] =
                     simstepRules(boardH, boardW, devmem[stream[1].curr],
                                  devmem[stream[1].next], t)]
    /\ Retire([tpc EXCEPT ![t] = 2])
    /\ UNCHANGED <<pc, fault, misuse, call>>
    /\ UNCHANGED hostVars

\* a launch on an invalid pointer: the first access of a thread faults, the
\* kernel is aborted and the context stays in the error state, in which every
\* later launch fails too
KernelFault ==
    /\ stream # << >>
    /\ fault \/ UNINIT \in {stream[1].curr, stream[1].next}
    /\ fault' = TRUE
    /\ stream' = Tail(stream)
    /\ UNCHANGED <<pc, devmem, tpc, misuse, call>>
    /\ UNCHANGED hostVars

Device ==
    \/ \E t \in DOMAIN tpc : ThreadCopy(t)
    \/ \E t \in DOMAIN tpc : ThreadRules(t)
    \/ KernelFault

Host ==
    \/ ParseArgs
    \/ Malloc
    \/ Randomize
    \/ PrintInit
    \/ CudaMalloc0
    \/ MemcpyH2D
    \/ CudaMalloc1
    \/ Memset
    \/ LoopIter
    \/ LoopExit
    \/ MemcpyD2H
    \/ PrintResult
    \/ Free

Next == Host \/ Device

Spec == Init /\ [][Next]_vars

(* ------------------------------------------------------------------ *)
(* Properties of main (checked under Spec).                            *)
(* ------------------------------------------------------------------ *)
AllocOK == pboard = HOST /\ pDevBoard0 = DEV0 /\ pDevBoard1 = DEV1

\* the initial board has been printed: out[2] holds it
Started == Len(out) >= 2

\* the flat buffer of a printed board
Flat(printed, nrows, ncols) ==
    [i \in 0..(ncols * nrows - 1) |-> printed.cells[i \div ncols][i % ncols]]

InitialBoard == Flat(out[2], boardH, boardW)

AllDead(b) == \A i \in DOMAIN b : b[i] = 0

\* device memory after k launches run one after the other, each to completion,
\* from the board b0 in the first device board and zeros in the second
RECURSIVE DeviceAfter(_, _, _, _)
DeviceAfter(b0, k, nrows, ncols) ==
    IF k = 0
    THEN [a \in {DEV0, DEV1} |-> IF a = DEV0 THEN b0 ELSE ZeroBuffer(ncols * nrows)]
    ELSE LET m == DeviceAfter(b0, k - 1, nrows, ncols)
             c == IF ((k - 1) % 2) = 0 THEN DEV0 ELSE DEV1
             n == IF ((k - 1) % 2) = 0 THEN DEV1 ELSE DEV0
         IN  [m EXCEPT ![n] = Launch(nrows, ncols, m[c], m[n])]

\* the board of generation k: the buffer written as next by launch k-1
GenerationBoard(b0, k, nrows, ncols) ==
    DeviceAfter(b0, k, nrows, ncols)[IF (k % 2) = 0 THEN DEV0 ELSE DEV1]

\* C2 (as claimed): for N >= 1 the board printed as "Resulting Board:" is the
\* board of generation N, the initial board stepped N times.
C2_ResultIsGenerationN ==
    (pc \in {"free", "done"} /\ AllocOK /\ ngenerations >= 1)
        => out[3] = printBoard("Resulting Board:",
                               GenerationBoard(InitialBoard, ngenerations, boardH, boardW),
                               boardH, boardW)

\* the launches completed so far
Completed == gen - Len(stream)

\* C3: whatever the interleaving of the threads of each launch, at every
\* launch boundary both device boards hold what the launches completed so far
\* leave when run one thread after the other: the boards are a function of the
\* initial board and of the number of generations alone.
C3_ScheduleIndependent ==
    (AllocOK /\ pc \in {"loop", "memcpyD2H", "printResult", "free", "done"}
             /\ \A t \in DOMAIN tpc : tpc[t] = 0)
        => devmem = DeviceAfter(InitialBoard, Completed, boardH, boardW)

C3_Witness ==
    /\ AllocOK
    /\ pc = "done"
    /\ gen >= 2
    /\ devmem[DEV1] # InitialBoard
    /\ ~AllDead(devmem[DEV1])

\* C6: from an all-dead initial board every cell of both device boards is
\* dead, in every state of the run and so after every loop iteration.
C6_AllDeadStaysDead ==
    (Started /\ AllDead(InitialBoard))
        => \A a \in {DEV0, DEV1} : AllDead(devmem[a])

C6_Witness ==
    /\ AllocOK
    /\ pc = "done"
    /\ gen >= 2
    /\ AllDead(InitialBoard)
    /\ devmem[DEV0] = ZeroBuffer(boardW * boardH)
    /\ devmem[DEV1] = ZeroBuffer(boardW * boardH)

\* C9 (as claimed): an argument that is not a well-formed integer leaves the
\* generation count at its default.
C9_MalformedKeepsDefault ==
    (pc # "args" /\ argv # NoArg /\ ~WellFormed(argv))
        => ngenerations = DefaultGenerations

\* C10 (as claimed): no randomizeBoard, cudaMemcpy, cudaMemset or simstep call
\* is made on a buffer whose allocation failed.
C10_NoCallOnFailedBuffer == misuse = {}

(* ------------------------------------------------------------------ *)
(* SpecStep: generation steps on boards of several sizes.              *)
(*                                                                     *)
(* The state is that of main on entry to its loop, for a square board  *)
(* of side BLOCK_SIDE * k: the initial board in hostmem and in the     *)
(* first device board, zeros in the second.  One action is one loop    *)
(* iteration whose launch runs to completion, thread after thread      *)
(* (C3: every interleaving of the threads leaves the same boards).     *)
(* The initial boards are those whose live cells all lie in the 3 x 3  *)
(* neighbourhood of some cell.                                         *)
(* ------------------------------------------------------------------ *)
Cells(nrows, ncols) == (0..(ncols - 1)) \X (0..(nrows - 1))

\* the cells at distance at most 1 of c, c included, that are on the board
Window(c, nrows, ncols) ==
    {d \in Cells(nrows, ncols) :
        /\ d[1] - c[1] \in -1..1
        /\ d[2] - c[2] \in -1..1}

\* the buffer whose live cells are exactly those of P, as the code of
\* randomizeBoard and printBoard lays cells out: cell (x, y) at x * ncols + y
BoardOf(P, nrows, ncols) ==
    [i \in 0..(ncols * nrows - 1) |->
        IF \E d \in P : d[1] * ncols + d[2] = i THEN 1 ELSE 0]

InitStep ==
    /\ pc = "step"
    /\ argv = NoArg
    /\ ngenerations = MaxStepGen
    /\ \E k \in 1..MaxBlocks : boardW = BLOCK_SIDE * k /\ boardH = BLOCK_SIDE * k
    /\ pboard = HOST
    /\ \E c \in Cells(boardH, boardW) :
          \E P \in SUBSET Window(c, boardH, boardW) : hostmem = BoardOf(P, boardH, boardW)
    /\ pDevBoard0 = DEV0
    /\ pDevBoard1 = DEV1
    /\ devmem = [a \in {DEV0, DEV1} |->
                    IF a = DEV0 THEN hostmem ELSE cudaMemset(boardH * boardW)]
    /\ gen = 0
    /\ pcurr = UNINIT
    /\ pnext = UNINIT
    /\ stream = << >>
    /\ tpc = << >>
    /\ fault = FALSE
    /\ out = << >>
    /\ misuse = {}
    /\ call = NoCall

\* lines 153-166, with the launch complete
StepLaunch ==
    /\ pc = "step"
    /\ gen < ngenerations
    /\ pcurr' = LoopCurr(gen)
    /\ pnext' = LoopNext(gen)
    /\ devmem' = [devmem EXCEPT ![pnext'] =
                     Launch(boardH, boardW, devmem[pcurr'], devmem[pnext'])]
    /\ gen' = gen + 1
    /\ UNCHANGED <<pc, argv, ngenerations, boardW, boardH, pboard, hostmem, pDevBoard0,
                   pDevBoard1, stream, tpc, fault, out, misuse, call>>

NextStep == StepLaunch

SpecStep == InitStep /\ [][NextStep]_vars

(* ------------------------------------------------------------------ *)
(* SpecFn: the device functions getat and numneighbors, called on a    *)
(* board in the first device buffer.                                   *)
(* ------------------------------------------------------------------ *)
InitFn ==
    /\ pc = "fn"
    /\ argv = NoArg
    /\ ngenerations = 0
    /\ \E n \in 1..MaxFnSide : boardW = n /\ boardH = n
    /\ pboard = HOST
    /\ \E c \in Cells(boardH, boardW) :
          \E P \in SUBSET Window(c, boardH, boardW) : hostmem = BoardOf(P, boardH, boardW)
    /\ pDevBoard0 = DEV0
    /\ pDevBoard1 = DEV1
    /\ devmem = [a \in {DEV0, DEV1} |->
                    IF a = DEV0 THEN hostmem ELSE cudaMemset(boardH * boardW)]
    /\ gen = 0
    /\ pcurr = UNINIT
    /\ pnext = UNINIT
    /\ stream = << >>
    /\ tpc = << >>
    /\ fault = FALSE
    /\ out = << >>
    /\ misuse = {}
    /\ call = NoCall

CallGetat(x, y) ==
    /\ pc = "fn"
    /\ call = NoCall
    /\ call' = [fn |-> "getat", x |-> x, y |-> y,
                ret |-> getat(devmem[pDevBoard0], boardH, boardW, x, y)]
    /\ UNCHANGED <<pc, devmem, stream, tpc, fault, misuse>>
    /\ UNCHANGED hostVars

CallNumneighbors(x, y) ==
    /\ pc = "fn"
    /\ call = NoCall
    /\ call' = [fn |-> "numneighbors", x |-> x, y |-> y,
                ret |-> numneighbors(x, y, devmem[pDevBoard0], boardH, boardW)]
    /\ UNCHANGED <<pc, devmem, stream, tpc, fault, misuse>>
    /\ UNCHANGED hostVars

NextFn ==
    \/ \E x \in (0 - Margin)..(boardW - 1 + Margin),
          y \in (0 - Margin)..(boardH - 1 + Margin) : CallGetat(x, y)
    \/ \E c \in Cells(boardH, boardW) : CallNumneighbors(c[1], c[2])

SpecFn == InitFn /\ [][NextFn]_vars

(* ------------------------------------------------------------------ *)
(* Properties of the kernel and of the device functions.               *)
(* ------------------------------------------------------------------ *)
\* the live cells of a buffer, each named by its coordinates
LiveCells(b, ncols) == {<<i \div ncols, i % ncols>> : i \in {j \in DOMAIN b : b[j] = 1}}

\* the eight positions around (x, y)
Moore(x, y) ==
    {<<x + dx, y + dy>> : dx \in -1..1, dy \in -1..1} \ {<<x, y>>}

LiveCount(b, ncols, x, y) == Cardinality(Moore(x, y) \cap LiveCells(b, ncols))

Alive(b, ncols, x, y) == <<x, y>> \in LiveCells(b, ncols)

\* the state the rules give a cell
Rule(alive, count) ==
    IF count = 3 \/ (alive /\ count = 2) THEN 1 ELSE 0

\* C1: after a launch, every cell of next is alive exactly when its
\* live-neighbour count in current is 3, or it is alive in current and the
\* count is 2, and dead otherwise.
C1_RuleTable ==
    (pc = "step" /\ gen >= 1)
        => LET live == LiveCells(devmem[pcurr], boardW)
           IN  \A c \in Cells(boardH, boardW) :
                  devmem[pnext][c[1] * boardW + c[2]]
                      = Rule(c \in live, Cardinality(Moore(c[1], c[2]) \cap live))

\* a cell of current with the given state and count whose cell of next is v
HasCase(alive, count, v) ==
    \E c \in Cells(boardH, boardW) :
        /\ Alive(devmem[pcurr], boardW, c[1], c[2]) = alive
        /\ LiveCount(devmem[pcurr], boardW, c[1], c[2]) = count
        /\ devmem[pnext][c[1] * boardW + c[2]] = v

C1_Witness ==
    /\ pc = "step"
    /\ gen = 1
    /\ HasCase(TRUE, 1, 0)
    /\ HasCase(TRUE, 2, 1)
    /\ HasCase(TRUE, 3, 1)
    /\ HasCase(TRUE, 4, 0)
    /\ HasCase(FALSE, 3, 1)
    /\ HasCase(FALSE, 2, 0)

\* C4: getat returns the stored state of cell (x, y) when the cell is on the
\* board and 0 for every other coordinate, negative ones included.
C4_GetatBounded ==
    call.fn = "getat"
        => call.ret = IF Alive(devmem[pDevBoard0], boardW, call.x, call.y) THEN 1 ELSE 0

\* a call to the left of column 0 while the cell on the opposite edge is alive
C4_Witness ==
    /\ call.fn = "getat"
    /\ call.x = 0 - 1
    /\ call.y = 0
    /\ Alive(devmem[pDevBoard0], boardW, boardW - 1, 0)
    /\ call.ret = 0

\* C5: numneighbors returns the number of live cells among the positions
\* around (x, y) that are on the board; for the corner (0,0) these are
\* (1,0), (0,1) and (1,1) only.
C5_NeighborCount ==
    call.fn = "numneighbors"
        => /\ call.ret = LiveCount(devmem[pDevBoard0], boardW, call.x, call.y)
           /\ (call.x = 0 /\ call.y = 0)
                 => call.ret = Cardinality({<<1, 0>>, <<0, 1>>, <<1, 1>>}
                                              \cap LiveCells(devmem[pDevBoard0], boardW))

\* the centre of a board of nine live cells: eight neighbours, itself not counted
C5_Witness ==
    /\ call.fn = "numneighbors"
    /\ call.x = 1
    /\ call.y = 1
    /\ Cardinality(LiveCells(devmem[pDevBoard0], boardW)) = 9
    /\ call.ret = 8

\* a row of three live cells as printBoard prints it: x fixed, y-1 .. y+1
HLine(c) == {<<c[1], c[2] - 1>>, c, <<c[1], c[2] + 1>>}

\* the column of three live cells through the same centre
VLine(c) == {<<c[1] - 1, c[2]>>, c, <<c[1] + 1, c[2]>>}

\* the centres of the horizontal rows that keep a dead cell of margin on every side
MarginCentres(nrows, ncols) ==
    {c \in Cells(nrows, ncols) :
        /\ c[1] >= 1 /\ c[1] <= ncols - 2
        /\ c[2] >= 2 /\ c[2] <= nrows - 3}

\* C7: a horizontal row of three with a margin of dead cells is the vertical
\* row through the same centre after one generation and the horizontal row
\* again after two.
C7_Blinker ==
    pc = "step"
        => LET live == LiveCells(hostmem, boardW)
           IN  \A c \in MarginCentres(boardH, boardW) :
                  live = HLine(c)
                      => /\ gen >= 1 => devmem[DEV1] = BoardOf(VLine(c), boardH, boardW)
                         /\ gen >= 2 => devmem[DEV0] = hostmem

C7_Witness ==
    /\ pc = "step"
    /\ gen = 2
    /\ \E c \in MarginCentres(boardH, boardW) :
          /\ hostmem = BoardOf(HLine(c), boardH, boardW)
          /\ devmem[pcurr] = BoardOf(VLine(c), boardH, boardW)
          /\ devmem[pnext] = hostmem

\* the 2 x 2 block with corner c
Block(c) == {c, <<c[1] + 1, c[2]>>, <<c[1], c[2] + 1>>, <<c[1] + 1, c[2] + 1>>}

\* C8: a 2 x 2 block on an otherwise dead board, anywhere on the board, is
\* unchanged by a generation step.
C8_BlockStill ==
    (pc = "step" /\ gen >= 1)
        => LET live == LiveCells(hostmem, boardW)
           IN  \A c \in Cells(boardH, boardW) :
                  (c[1] <= boardW - 2 /\ c[2] <= boardH - 2 /\ live = Block(c))
                      => devmem[pnext] = devmem[pcurr] /\ devmem[pnext] = hostmem

\* the 4 x 4 board with live cells at (1,1), (1,2), (2,1), (2,2), after one step
C8_Witness ==
    /\ pc = "step"
    /\ gen = 1
    /\ boardW = 4
    /\ boardH = 4
    /\ LiveCells(hostmem, boardW) = {<<1, 1>>, <<1, 2>>, <<2, 1>>, <<2, 2>>}
    /\ devmem[pnext] = hostmem

(* ------------------------------------------------------------------ *)
(* Termination of main (checked under Spec).                           *)
(* ------------------------------------------------------------------ *)
\* how the process ends: return 0 at line 192, or killed by the write through
\* the null board in randomizeBoard
ExitStatus ==
    CASE pc = "done"  -> "exit 0"
      [] pc = "crash" -> "SIGSEGV"
      [] OTHER        -> "running"

\* C11 (as claimed): for every N >= 0 the loop launches simstep exactly N
\* times and the program ends with exit code 0; no path ends in another way.
C11_ExitsZeroAfterNLaunches ==
    /\ ExitStatus \in {"running", "exit 0"}
    /\ (ExitStatus = "exit 0" /\ ngenerations >= 0)
           => (gen = ngenerations /\ stream = << >>)


(* ------------------------------------------------------------------ *)
(* The two buffers of a step (checked under Spec).                     *)
(* ------------------------------------------------------------------ *)
AtBoundary == \A t \in DOMAIN tpc : tpc[t] = 0

\* the launch completed last, and the buffers it was given
LastLaunch == Completed - 1

LastCurr == IF (LastLaunch % 2) = 0 THEN DEV0 ELSE DEV1

LastNext == IF (LastLaunch % 2) = 0 THEN DEV1 ELSE DEV0

\* no step of a thread changes the buffer its launch was given as current,
\* and the two buffers of a launch are different boards
CurrentNotWritten ==
    HeadValid => /\ stream[1].curr # stream[1].next
                 /\ devmem'[stream[1].curr] = devmem[stream[1].curr]

\* what a completed launch left in next is what it leaves whatever next held
\* before: nothing it computed was read from next
NextNotRead ==
    (AllocOK /\ AtBoundary /\ Completed >= 1)
        => \A junk \in AllBuffers(boardW * boardH) :
              devmem[LastNext] = Launch(boardH, boardW, devmem[LastCurr], junk)

\* C12: during every step the current buffer is never written and the next
\* buffer never read: the two are distinct device boards, every write of a
\* thread goes to next, and the board a launch leaves does not depend on
\* the previous contents of next.
C12_StepFrame == []NextNotRead /\ [][CurrentNotWritten]_vars

\* the second launch has overwritten the initial board with another one
C12_Witness ==
    /\ AllocOK
    /\ AtBoundary
    /\ Completed = 2
    /\ devmem[DEV0] # InitialBoard
    /\ devmem[DEV1] # ZeroBuffer(boardW * boardH)


(* ------------------------------------------------------------------ *)
(* SpecRect: the elements of the buffers a step touches, on boards of  *)
(* ncols x nrows cells whose sides may differ.  Each buffer is         *)
(* allocated with ncols * nrows cells, elements 0 .. ncols * nrows - 1.*)
(* One action is one worker of a launch, or one call of getat; it      *)
(* records in call the elements read and written, without performing   *)
(* the accesses.                                                       *)
(* ------------------------------------------------------------------ *)
\* the sides of the boards are BLOCK_SIDE * 1 .. BLOCK_SIDE * MaxRectBlocks
MaxRectBlocks == 2

\* lines 31-33: the element of pboard getat reads, none when it returns 0x0
getatReads(nrows, ncols, x, y) ==
    IF x >= 0 /\ x < ncols /\ y >= 0 /\ y < nrows
    THEN {x * ncols + y}
    ELSE {}

\* lines 40-54: the elements read by the eight getat calls
numneighborsReads(x, y, nrows, ncols) ==
    UNION { getatReads(nrows, ncols, x - 1, y), getatReads(nrows, ncols, x + 1, y),
            getatReads(nrows, ncols, x, y - 1), getatReads(nrows, ncols, x, y + 1),
            getatReads(nrows, ncols, x - 1, y - 1), getatReads(nrows, ncols, x - 1, y + 1),
            getatReads(nrows, ncols, x + 1, y - 1), getatReads(nrows, ncols, x + 1, y + 1) }

\* lines 66, 68, 87: the elements of pCurrBoard thread t reads
simstepReads(nrows, ncols, t) ==
    LET x == ThreadX(t)
        y == ThreadY(t)
        indx == x * ncols + y
    IN  {indx} \cup numneighborsReads(x, y, nrows, ncols)

\* lines 66, 74, 83, 88: the elements of pNewBoard thread t writes
simstepWrites(nrows, ncols, t) ==
    LET x == ThreadX(t)
        y == ThreadY(t)
        indx == x * ncols + y
    IN  {indx}

InitRect ==
    /\ pc = "rect"
    /\ argv = NoArg
    /\ ngenerations = 1
    /\ \E j \in 1..MaxRectBlocks : boardW = BLOCK_SIDE * j
    /\ \E k \in 1..MaxRectBlocks : boardH = BLOCK_SIDE * k
    /\ pboard = HOST
    /\ hostmem = ZeroBuffer(boardW * boardH)
    /\ pDevBoard0 = DEV0
    /\ pDevBoard1 = DEV1
    /\ devmem = [a \in {DEV0, DEV1} |-> cudaMemset(boardW * boardH)]
    /\ gen = 0
    /\ pcurr = DEV0
    /\ pnext = DEV1
    /\ stream = << >>
    /\ tpc = << >>
    /\ fault = FALSE
    /\ out = << >>
    /\ misuse = {}
    /\ call = NoCall

\* one thread of simstep<<<gridsize, blocksize>>>(boardH, boardW, pcurr, pnext)
WorkerAccess(t) ==
    /\ pc = "rect"
    /\ call = NoCall
    /\ call' = [fn |-> "simstep", x |-> ThreadX(t), y |-> ThreadY(t),
                reads |-> simstepReads(boardH, boardW, t),
                writes |-> simstepWrites(boardH, boardW, t)]
    /\ UNCHANGED <<pc, argv, ngenerations, boardW, boardH, pboard, hostmem, pDevBoard0,
                   pDevBoard1, devmem, gen, pcurr, pnext, stream, tpc, fault, out, misuse>>

\* getat(pcurr, boardH, boardW, x, y)
GetatAccess(x, y) ==
    /\ pc = "rect"
    /\ call = NoCall
    /\ call' = [fn |-> "getat", x |-> x, y |-> y,
                reads |-> getatReads(boardH, boardW, x, y),
                writes |-> {}]
    /\ UNCHANGED <<pc, argv, ngenerations, boardW, boardH, pboard, hostmem, pDevBoard0,
                   pDevBoard1, devmem, gen, pcurr, pnext, stream, tpc, fault, out, misuse>>

NextRect ==
    \/ \E t \in Threads(gridsize(boardW, boardH), blocksize) : WorkerAccess(t)
    \/ \E x \in (0 - Margin)..(boardW - 1 + Margin) :
          \E y \in (0 - Margin)..(boardH - 1 + Margin) : GetatAccess(x, y)

SpecRect == InitRect /\ [][NextRect]_vars

\* C13 (as claimed): on every board, square or not, the index x * ncols + y
\* gives each in-bounds coordinate exactly one element and distinct
\* coordinates distinct elements, so no two workers write the same element.
C13_IndexInjective ==
    /\ (pc = "rect" /\ call.fn = "getat" /\ <<call.x, call.y>> \in Cells(boardH, boardW))
           => /\ Cardinality(call.reads) = 1
              /\ \A d \in Cells(boardH, boardW) :
                    d # <<call.x, call.y>>
                        => getatReads(boardH, boardW, d[1], d[2]) \cap call.reads = {}
    /\ (pc = "rect" /\ call.fn = "simstep")
           => \A t \in Threads(gridsize(boardW, boardH), blocksize) :
                 <<ThreadX(t), ThreadY(t)>> # <<call.x, call.y>>
                     => simstepWrites(boardH, boardW, t) \cap call.writes = {}

\* C14 (as claimed): on every board, square or not, allocated with
\* width * height cells, every read of getat and every read and write of a
\* worker uses an index in 0 .. width * height - 1.
C14_AccessesInBuffer ==
    (pc = "rect" /\ call # NoCall)
        => (call.reads \cup call.writes) \subseteq 0..(boardW * boardH - 1)


(* ------------------------------------------------------------------ *)
(* The order of the launches and of the copy back (checked under Spec).*)
(* ------------------------------------------------------------------ *)
\* C15: the workers of one launch have all completed before a worker of the
\* next launch reads the board they wrote, and before the host copies a board
\* back: the board an executing launch reads as current is the complete board
\* of its generation, and the board copied to the host after N >= 1 iterations
\* is the complete board the last launch read, with no launch pending.
C15_Barrier ==
    /\ (AllocOK /\ HeadValid)
           => devmem[stream[1].curr]
                 = GenerationBoard(InitialBoard, Completed, boardH, boardW)
    /\ (AllocOK /\ pc \in {"printResult", "free", "done"} /\ ngenerations >= 1)
           => /\ stream = << >>
              /\ AtBoundary
              /\ hostmem = GenerationBoard(InitialBoard, ngenerations - 1, boardH, boardW)

\* the second launch is running on a board the first launch changed
C15_Witness ==
    /\ AllocOK
    /\ HeadValid
    /\ Completed = 1
    /\ \E t \in DOMAIN tpc : tpc[t] = 1
    /\ devmem[DEV1] # ZeroBuffer(boardW * boardH)
    /\ devmem[DEV1] # InitialBoard


(* ------------------------------------------------------------------ *)
(* The workers of a launch and the cells (checked under SpecStep).     *)
(* ------------------------------------------------------------------ *)
\* a buffer no cell of which holds a value the step can write
StaleBuffer(n) == [i \in 0..(n - 1) |-> 2]

\* C16: the threads of one launch, a grid of width/BLOCK_SIDE by
\* height/BLOCK_SIDE blocks of BLOCK_SIDE x BLOCK_SIDE threads, are in
\* one-to-one correspondence with the cells of the board, so after the step
\* every cell of next holds the value computed from current: the board left
\* is the one the launch leaves over a buffer of stale cells, none of which
\* survives.
C16_EveryCellWritten ==
    (pc = "step" /\ gen >= 1)
        => LET T == Threads(gridsize(boardW, boardH), blocksize)
           IN  /\ {<<ThreadX(t), ThreadY(t)>> : t \in T} = Cells(boardH, boardW)
               /\ Cardinality(T) = boardW * boardH
               /\ devmem[pnext] = Launch(boardH, boardW, devmem[pcurr],
                                         StaleBuffer(boardW * boardH))

\* a board of several blocks, after the launch that overwrote the initial board
C16_Witness ==
    /\ pc = "step"
    /\ gen = 2
    /\ boardW > BLOCK_SIDE
    /\ devmem[pnext] # hostmem
    /\ ~AllDead(devmem[pnext])


(* ------------------------------------------------------------------ *)
(* The roles of the two device boards (checked under Spec).            *)
(* ------------------------------------------------------------------ *)
\* device board k mod 2
DevBoard(k) == IF (k % 2) = 0 THEN DEV0 ELSE DEV1

\* launch g reads board g mod 2 and writes the other; so do the pointers the
\* last iteration left; after k completed launches generation k is in board
\* k mod 2
RolesAlternate ==
    AllocOK =>
        /\ \A i \in 1..Len(stream) :
              /\ stream[i].curr = DevBoard(Completed + i - 1)
              /\ stream[i].next = DevBoard(Completed + i)
        /\ gen >= 1 => (pcurr = DevBoard(gen - 1) /\ pnext = DevBoard(gen))
        /\ (AtBoundary /\ pc \in {"loop", "memcpyD2H", "printResult", "free", "done"})
              => devmem[DevBoard(Completed)]
                    = GenerationBoard(InitialBoard, Completed, boardH, boardW)

\* an iteration of the host loop moves no cell: it only picks the pointers
NoCopyBetweenBoards == (gen' # gen) => (devmem' = devmem)

\* C17: the two device boards alternate roles without any copy between them:
\* in iteration gen the current buffer is board gen mod 2 and next the other,
\* so the current buffer of an iteration is the next buffer of the one before,
\* and after k completed iterations generation k is in board k mod 2.
C17_BuffersAlternate == []RolesAlternate /\ [][NoCopyBetweenBoards]_vars

\* the third iteration is enqueued on the board the second one wrote
C17_Witness ==
    /\ AllocOK
    /\ gen = 3
    /\ Completed = 2
    /\ AtBoundary
    /\ stream[1].curr = DEV0
    /\ pcurr = DEV0
    /\ devmem[DEV0] # InitialBoard
    /\ ~AllDead(devmem[DEV0])


(* ------------------------------------------------------------------ *)
(* The values of the cells (checked under SpecStep).                   *)
(* ------------------------------------------------------------------ *)
Binary(b) == \A i \in DOMAIN b : b[i] \in {0, 1}

\* C18: every cell of the host board and of both device boards holds 0 or 1
\* at every generation boundary, so the sum numneighbors computes for any
\* cell of either device board is in 0..8.
C18_CellsBinary ==
    /\ Binary(hostmem)
    /\ \A a \in {DEV0, DEV1} :
          /\ Binary(devmem[a])
          /\ devmem[a] # NoBoard
                => \A c \in Cells(boardH, boardW) :
                      numneighbors(c[1], c[2], devmem[a], boardH, boardW) \in 0..8

\* a step was taken from a board with a cell all of whose neighbours are alive
C18_Witness ==
    /\ pc = "step"
    /\ gen = 1
    /\ \E c \in Cells(boardH, boardW) :
          numneighbors(c[1], c[2], devmem[pcurr], boardH, boardW) = 8
    /\ ~AllDead(devmem[pnext])


(* ------------------------------------------------------------------ *)
(* A generation count of zero or less (checked under Spec).            *)
(* ------------------------------------------------------------------ *)
\* C19 (as claimed): when the generation count is 0 or negative the loop body
\* never runs, the pointer the result is copied from has been assigned one of
\* the two device boards before it is read, and the board printed as
\* "Resulting Board:" equals the initial board.
C19_ZeroGenerations ==
    (AllocOK /\ ngenerations <= 0 /\ pc \in {"printResult", "free", "done"})
        => /\ gen = 0
           /\ pcurr \in {pDevBoard0, pDevBoard1}
           /\ pc \in {"free", "done"}
                 => out[3] = printBoard("Resulting Board:", InitialBoard, boardH, boardW)

====
